---- MODULE Spec2Model ----
(***************************************************************************)
(* Model of compress_pdf in scripts/reduce_pdf_size.py: the bounded        *)
(* binary search over the image quality, the two retained candidates       *)
(* (best_candidate, fallback_result), the temporary files each trial       *)
(* creates, and the final move of the winner to the output path.           *)
(*                                                                         *)
(* One behaviour is one call of compress_pdf.  The arguments are drawn in  *)
(* Init; the codec (pikepdf's save at a given image quality) is a size     *)
(* function over the quality range, fixed when the search begins, and may  *)
(* raise PdfError on any trial.                                            *)
(*                                                                         *)
(* tolerance is kept in hundredths (tolerance = 5 is 0.05), so that        *)
(* size <= target_size * (1 + tolerance) is the integer comparison         *)
(* size * 100 <= target_size * (100 + tolerance).  For every value drawn   *)
(* below no integer size lies at a ceiling that binary floating point      *)
(* rounds to the other side.                                               *)
(***************************************************************************)
EXTENDS Integers, Sequences, FiniteSets

\* ---------------------------------------------------------------- bounds
\* file sizes range over 1..MaxSize
MaxSize == 4
\* max_iterations ranges over 0..MaxIter
MaxIter == 2

\* ---------------------------------------------------- program constants
\* Python's None for the Optional[Path] / Optional[int] locals; artifacts
\* and sizes are positive, so 0 is free (and `x or 0` maps None to 0)
None == 0
\* the limits of the quality range accepted by the validation
QUALITY_FLOOR == 1
QUALITY_CEIL == 100
\* max_iterations: int = 8, the value every call made by main runs with
DEFAULT_MAX_ITERATIONS == 8

VARIABLES
    \* arguments and environment of the call
    input_exists, input_size, target_size, tolerance,
    min_quality, max_quality, max_iterations,
    codec,
    \* locals of compress_pdf
    best_candidate, best_candidate_size,
    fallback_result, fallback_result_size,
    low, high, reached_target, iterations,
    \* the file system: temporary files that exist, and the output path
    live, output,
    \* control and outcome
    pc, err, result_size, result_reached,
    \* history: the trials whose codec call returned, codec invocations
    trials, codec_calls,
    \* main, the command-line caller: whether it has reported the result,
    \* whether it printed its warning, and the exit status it returned
    main_done, warning_printed, exit_code

args == <<input_exists, input_size, target_size, tolerance,
          min_quality, max_quality, max_iterations>>
locals == <<best_candidate, best_candidate_size, fallback_result,
            fallback_result_size, low, high, reached_target, iterations>>
outcome == <<pc, err, result_size, result_reached>>
cli == <<main_done, warning_printed, exit_code>>
vars == <<args, codec, locals, live, output, outcome, trials, codec_calls, cli>>

\* ------------------------------------------------------------ input sets
Sizes == 1..MaxSize
\* in hundredths: one valid tolerance, both limits, one value beyond each
Tolerances == {-50, 0, 50, 100, 150}
\* <<min_quality, max_quality>>: two valid ranges touching the limits 1 and
\* 100 (the wider one lets a failing trial follow a passing one that
\* followed a failing one), and ranges violating each clause of the validation
QualityRanges == {<<1, 4>>, <<96, 100>>, <<0, 3>>, <<98, 101>>, <<5, 5>>, <<7, 4>>}

\* the synthetic codec of the worked example: size(q) = 200000 + 6000 q
ExampleCodec == [q \in 20..95 |-> 200000 + 6000 * q]

\* the size functions the codec may realise over a quality range
CodecChoices(lo, hi) ==
    IF <<lo, hi>> = <<20, 95>> THEN {ExampleCodec} ELSE [lo..hi -> Sizes]

Untouched == [kind |-> "untouched", artifact |-> None, size |-> None]

InitLocals ==
    /\ codec = << >>
    /\ best_candidate = None /\ best_candidate_size = None
    /\ fallback_result = None /\ fallback_result_size = None
    /\ low = 0 /\ high = 0
    /\ reached_target = FALSE
    /\ iterations = 0
    /\ live = {}
    /\ output = Untouched
    /\ pc = "call" /\ err = "none"
    /\ result_size = None /\ result_reached = FALSE
    /\ trials = << >>
    /\ codec_calls = 0
    /\ main_done = FALSE /\ warning_printed = FALSE /\ exit_code = 0

SmallInit ==
    /\ input_exists \in BOOLEAN
    /\ input_size \in IF input_exists THEN Sizes ELSE {None}
    /\ target_size \in 1..(MaxSize - 1)
    /\ tolerance \in Tolerances
    /\ \E r \in QualityRanges : min_quality = r[1] /\ max_quality = r[2]
    /\ max_iterations \in (0..MaxIter) \cup {DEFAULT_MAX_ITERATIONS}

\* the worked example: target 500000, tolerance 0.05, range 20..95, cap 8
ExampleInit ==
    /\ input_exists = TRUE
    /\ input_size = 1000000
    /\ target_size = 500000
    /\ tolerance = 5
    /\ min_quality = 20 /\ max_quality = 95
    /\ max_iterations = DEFAULT_MAX_ITERATIONS

Init == (SmallInit \/ ExampleInit) /\ InitLocals

\* ------------------------------------------------------------ validation
Raise(e) ==
    /\ pc' = "raised" /\ err' = e
    /\ UNCHANGED <<result_size, result_reached>>

\* if not input_path.exists(): raise FileNotFoundError
InputNotFound ==
    /\ pc = "call"
    /\ ~input_exists
    /\ Raise("FileNotFoundError")
    /\ UNCHANGED <<cli, args, codec, locals, live, output, trials, codec_calls>>

\* mutant: a tolerance of 0 is accepted
BadTolerance_ZeroAllowed == tolerance < 0 \/ tolerance >= 100

BadTolerance == tolerance <= 0 \/ tolerance >= 100

\* if tolerance <= 0 or tolerance >= 1: raise ValueError
InvalidTolerance ==
    /\ pc = "call"
    /\ input_exists
    /\ BadTolerance
    /\ Raise("ValueError: tolerance")
    /\ UNCHANGED <<cli, args, codec, locals, live, output, trials, codec_calls>>

BadQualityRange ==
    \/ min_quality < QUALITY_FLOOR
    \/ max_quality > QUALITY_CEIL
    \/ min_quality >= max_quality

\* if min_quality < 1 or max_quality > 100 or min_quality >= max_quality
InvalidQualityRange ==
    /\ pc = "call"
    /\ input_exists
    /\ ~BadTolerance
    /\ BadQualityRange
    /\ Raise("ValueError: quality range")
    /\ UNCHANGED <<cli, args, codec, locals, live, output, trials, codec_calls>>

Validated == pc = "call" /\ input_exists /\ ~BadTolerance /\ ~BadQualityRange

\* mutant: an input of exactly target_size is compressed
AlreadySmallEnough_Strict == input_size < target_size

AlreadySmallEnough == input_size <= target_size

\* shutil.copy2(input_path, output_path); return output_path, input_size, True
CopyThrough ==
    /\ Validated
    /\ AlreadySmallEnough
    /\ output' = [kind |-> "copy", artifact |-> None, size |-> input_size]
    /\ pc' = "returned"
    /\ result_size' = input_size
    /\ result_reached' = TRUE
    /\ UNCHANGED <<cli, args, codec, locals, live, err, trials, codec_calls>>

\* the locals are initialised and the loop is entered
StartSearch ==
    /\ Validated
    /\ ~AlreadySmallEnough
    /\ codec' \in CodecChoices(min_quality, max_quality)
    /\ best_candidate' = None /\ best_candidate_size' = None
    /\ fallback_result' = None /\ fallback_result_size' = None
    /\ low' = min_quality /\ high' = max_quality
    /\ reached_target' = FALSE
    /\ iterations' = 0
    /\ pc' = "loop"
    /\ UNCHANGED <<cli, args, live, output, err, result_size, result_reached,
                   trials, codec_calls>>

\* ------------------------------------------------------------ the search
\* mutant: the iteration cap is not tested
LoopContinues_NoCap == low <= high

\* while low <= high and iterations < max_iterations
LoopContinues == low <= high /\ iterations < max_iterations

\* mutant: the midpoint is rounded up
Quality_RoundsUp == (low + high + 1) \div 2

\* quality = (low + high) // 2
Quality == (low + high) \div 2

\* the NamedTemporaryFile of this iteration; one fresh file per iteration
TempOutput == iterations + 1

\* if size <= target_size * (1 + tolerance)
WithinTolerance(size) == size * 100 <= target_size * (100 + tolerance)

\* mutant: a passing trial of equal size displaces the best candidate
TakesBest_OnTies(size) == best_candidate = None \/ size >= best_candidate_size

\* mutant: the first passing trial is never displaced
TakesBest_KeepsFirst(size) == best_candidate = None

\* if best_candidate is None or size > (best_candidate_size or 0)
TakesBest(size) == best_candidate = None \/ size > best_candidate_size

\* mutant: a failing trial of equal size displaces the fallback
TakesFallback_OnTies(size) ==
    fallback_result_size = None \/ size <= fallback_result_size

\* if fallback_result_size is None or size < fallback_result_size
TakesFallback(size) == fallback_result_size = None \/ size < fallback_result_size

\* mutant: the flag, once set, is never cleared
ReachedTarget_Sticky(size) == reached_target \/ size <= target_size

\* mutant: the flag is set by any size within the tolerance ceiling
ReachedTarget_WithinCeiling(size) == WithinTolerance(size)

\* reached_target = size <= target_size
ReachedTarget(size) == size <= target_size

\* mutant: a failing trial is offered to the fallback slot even after a
\* best candidate exists
OffersFallback_NoFreeze(keep_temp, best) == ~keep_temp

\* if not keep_temp and best_candidate is None
OffersFallback(keep_temp, best) == ~keep_temp /\ best = None

\* mutant: unlink removes nothing
Unlink_Noop(files, path) == files

\* mutant: a failing trial keeps its quality in the interval
NarrowHigh_KeepsQuality(quality) == quality

\* low = quality + 1
NarrowLow(quality) == quality + 1

\* high = quality - 1
NarrowHigh(quality) == quality - 1

\* path.unlink(missing_ok=True); None names no file
Unlink(files, path) == files \ {path}

\* one pass of the loop body whose codec call returned a file of `size`
TrialBody(size) ==
    LET temp_output == TempOutput
        passing == WithinTolerance(size)
        newBest == passing /\ TakesBest(size)
        best1 == IF newBest THEN temp_output ELSE best_candidate
        live0 == live \cup {temp_output}
        live1 == IF newBest THEN Unlink(live0, best_candidate) ELSE live0
        newFallback == OffersFallback(newBest, best1) /\ TakesFallback(size)
        live2 == IF newFallback THEN Unlink(live1, fallback_result) ELSE live1
        keep_temp == newBest \/ newFallback
        \* if not keep_temp: temp_output.unlink(missing_ok=True)
        live3 == IF keep_temp THEN live2 ELSE Unlink(live2, temp_output)
    IN  /\ iterations' = iterations + 1
        /\ codec_calls' = codec_calls + 1
        /\ trials' = Append(trials, [quality |-> Quality, size |-> size,
                                     artifact |-> temp_output])
        /\ best_candidate' = best1
        /\ best_candidate_size' = IF newBest THEN size ELSE best_candidate_size
        /\ fallback_result' = IF newFallback THEN temp_output ELSE fallback_result
        /\ fallback_result_size' =
              IF newFallback THEN size ELSE fallback_result_size
        /\ reached_target' = IF passing THEN ReachedTarget(size) ELSE reached_target
        /\ low' = IF passing THEN NarrowLow(Quality) ELSE low
        /\ high' = IF passing THEN high ELSE NarrowHigh(Quality)
        /\ live' = live3
        /\ UNCHANGED <<cli, args, codec, output, outcome>>

\* a trial whose size is within the tolerance ceiling
TrialPassing ==
    /\ pc = "loop"
    /\ LoopContinues
    /\ WithinTolerance(codec[Quality])
    /\ TrialBody(codec[Quality])

\* a trial whose size is over the tolerance ceiling
TrialFailing ==
    /\ pc = "loop"
    /\ LoopContinues
    /\ ~WithinTolerance(codec[Quality])
    /\ TrialBody(codec[Quality])

\* mutant: the codec error is recorded but the loop goes on
TrialCodecError_Swallowed ==
    /\ pc = "loop"
    /\ LoopContinues
    /\ iterations' = iterations + 1
    /\ codec_calls' = codec_calls + 1
    /\ live' = Unlink(live \cup {TempOutput}, TempOutput)
    /\ err' = "RuntimeError: codec"
    /\ UNCHANGED <<cli, args, codec, best_candidate, best_candidate_size,
                   fallback_result, fallback_result_size, low, high,
                   reached_target, output, trials, pc, result_size,
                   result_reached>>

\* except pikepdf.PdfError: temp_output.unlink(missing_ok=True); raise
TrialCodecError ==
    /\ pc = "loop"
    /\ LoopContinues
    /\ iterations' = iterations + 1
    /\ codec_calls' = codec_calls + 1
    /\ live' = Unlink(live \cup {TempOutput}, TempOutput)
    /\ Raise("RuntimeError: codec")
    /\ UNCHANGED <<cli, args, codec, best_candidate, best_candidate_size,
                   fallback_result, fallback_result_size, low, high,
                   reached_target, output, trials>>

\* ---------------------------------------------------------- finalization
\* mutant: the fallback is preferred over the best candidate
ResultPath_FallbackFirst ==
    IF fallback_result # None THEN fallback_result ELSE best_candidate

\* result_path / result_size: best_candidate if set, else fallback_result
ResultPath == IF best_candidate # None THEN best_candidate ELSE fallback_result
ResultSize ==
    IF best_candidate # None THEN best_candidate_size ELSE fallback_result_size

\* if result_path is None or not result_path.exists()
NoCandidate == ResultPath = None \/ ResultPath \notin live

\* raise RuntimeError("Unable to generate compressed PDF")
FinalizeNoCandidate ==
    /\ pc = "loop"
    /\ ~LoopContinues
    /\ NoCandidate
    /\ Raise("RuntimeError: no candidate")
    /\ UNCHANGED <<cli, args, codec, locals, live, output, trials, codec_calls>>

\* shutil.move(result_path, output_path); return
FinalizePromote ==
    /\ pc = "loop"
    /\ ~LoopContinues
    /\ ~NoCandidate
    /\ output' = [kind |-> "moved", artifact |-> ResultPath,
                  size |-> trials[ResultPath].size]
    /\ live' = live \ {ResultPath}
    /\ pc' = "returned"
    /\ result_size' = IF ResultSize # None THEN ResultSize
                      ELSE trials[ResultPath].size
    /\ result_reached' = reached_target
    /\ UNCHANGED <<cli, args, codec, locals, err, trials, codec_calls>>

\* ------------------------------------------------------------------ main
\* main calls compress_pdf without max_iterations, so a call is one of
\* main's only if it runs with the default
CalledByMain == max_iterations = DEFAULT_MAX_ITERATIONS

\* if not reached_target: print("Warning: ... within the tolerance window.")
WarningCondition == ~result_reached

\* return 0 if reached_target else 1
ExitCode == IF result_reached THEN 0 ELSE 1

\* main after compress_pdf returned: print the size, warn, return the status
MainReport ==
    /\ pc = "returned"
    /\ CalledByMain
    /\ ~main_done
    /\ main_done' = TRUE
    /\ warning_printed' = WarningCondition
    /\ exit_code' = ExitCode
    /\ UNCHANGED <<args, codec, locals, live, output, outcome, trials,
                   codec_calls>>

Next ==
    \/ MainReport
    \/ InputNotFound
    \/ InvalidTolerance
    \/ InvalidQualityRange
    \/ CopyThrough
    \/ StartSearch
    \/ TrialPassing
    \/ TrialFailing
    \/ TrialCodecError
    \/ FinalizePromote
    \/ FinalizeNoCandidate

Spec == Init /\ [][Next]_vars

\* ------------------------------------------------------------- type check
TypeOK ==
    /\ pc \in {"call", "loop", "returned", "raised"}
    /\ best_candidate \in 0..iterations
    /\ fallback_result \in 0..iterations
    /\ live \subseteq 1..iterations
    /\ codec_calls = iterations

\* ------------------------------------------------- vocabulary of the claims
CodecError == "RuntimeError: codec"
NoCandidateError == "RuntimeError: no candidate"
InvalidBudgetErrors == {"ValueError: tolerance", "ValueError: quality range"}

\* the call returned after running the search (not the copy-through)
SearchReturned == pc = "returned" /\ output.kind = "moved"

\* the quality of the trial whose artifact was moved to the output path
PromotedQuality == trials[output.artifact].quality

\* a size at or below the tolerance ceiling target_size * (1 + tolerance)
UnderCeiling(s) == s * 100 <= target_size * (100 + tolerance)

\* the budget violates none of the validation's clauses
BudgetValid ==
    /\ 0 < tolerance /\ tolerance < 100
    /\ 1 <= min_quality /\ min_quality < max_quality /\ max_quality <= 100

TrialIndexes == 1..Len(trials)
PassingTrials == {i \in TrialIndexes : UnderCeiling(trials[i].size)}

NonDecreasing(f) ==
    \A q1, q2 \in DOMAIN f : q1 <= q2 => f[q1] <= f[q2]

\* the qualities of the whole range whose size is within the ceiling
PassingQualities ==
    {q \in min_quality..max_quality : UnderCeiling(codec[q])}

MaxOf(S) == CHOOSE x \in S : \A y \in S : y <= x
MinOf(S) == CHOOSE x \in S : \A y \in S : x <= y

\* q*: the largest quality of the range within the ceiling
QStar == MaxOf(PassingQualities)

\* ------------------------------------------------------------------ C1
\* C1: for every completed search the returned reached_target is true
\* exactly when the size of the file moved to the output path is at most
\* target_size, whatever sizes the codec returned.
C1_ReachedTargetIffPromotedFits ==
    SearchReturned => (result_reached <=> output.size <= target_size)

\* ------------------------------------------------------------------ C2
\* C2: when the search returns, no temporary file of any trial other than
\* the promoted one (which has been moved away) still exists.
C2_NoTempLeftAtReturn ==
    SearchReturned => live = {}

\* ------------------------------------------------------------------ C3
\* C3: a codec failure on any trial ends the call with the codec error:
\* nothing is written to the output path, nothing is returned, and no
\* step (trial or finalization) follows it.
C3_CodecFailureAborts ==
    [][ /\ err' = CodecError =>
             /\ pc' = "raised"
             /\ output' = Untouched
             /\ result_size' = None
             /\ codec_calls' = Len(trials') + 1
        /\ err = CodecError => UNCHANGED vars ]_vars

\* a codec failure on a later trial, after candidates were retained
C3_Witness ==
    err = CodecError /\ pc = "raised" /\ Len(trials) >= 2

\* ------------------------------------------------------------------ C4
\* C4: when a codec failure aborts the search no temporary file exists
\* any more: the failing trial's file and the retained best / fallback
\* files have all been removed.
C4_NoTempLeftAfterAbort ==
    err = CodecError => live = {}

\* ------------------------------------------------------------------ C5
\* C5 as stated: under a non-decreasing size function with some quality of
\* the range within the ceiling, a search that exhausts the interval
\* promotes the candidate of the largest such quality q*.
C5_PromotesLargestPassingQuality ==
    (SearchReturned /\ low > high /\ NonDecreasing(codec)
        /\ PassingQualities # {})
    => /\ PromotedQuality = QStar
       /\ result_size = codec[QStar]

\* C5 amended: under the same conditions the promoted size is size(q*),
\* the largest size within the ceiling over the whole range, and the
\* promoted candidate is the lowest tried quality of that size (q* itself
\* unless an earlier passing trial had the same size); in the worked
\* example the result is quality 54, size 524000, reached_target false.
C5_PromotesLargestPassingSize ==
    (SearchReturned /\ low > high /\ NonDecreasing(codec)
        /\ PassingQualities # {})
    => /\ result_size = codec[QStar]
       /\ output.size = codec[QStar]
       /\ \A q \in PassingQualities : codec[q] <= result_size
       /\ \E i \in TrialIndexes : trials[i].quality = QStar
       /\ PromotedQuality =
            MinOf({trials[i].quality : i \in
                     {j \in TrialIndexes : trials[j].size = codec[QStar]}})
       /\ (codec = ExampleCodec =>
             /\ PromotedQuality = 54
             /\ result_size = 524000
             /\ result_reached = FALSE)

\* the worked example ran to interval exhaustion
C5_Witness ==
    /\ SearchReturned /\ low > high
    /\ codec = ExampleCodec
    /\ result_size = 524000

\* ------------------------------------------------------------------ C6
\* C6: if no trial of the search is within the ceiling, the promoted file
\* is the earliest trial of minimum size among all trials, the returned
\* size is that minimum, and reached_target is false.
C6_FallbackIsEarliestMinimum ==
    (SearchReturned /\ PassingTrials = {})
    => LET m == MinOf({trials[i].size : i \in TrialIndexes})
       IN  /\ result_size = m
           /\ output.size = m
           /\ output.artifact = MinOf({i \in TrialIndexes : trials[i].size = m})
           /\ result_reached = FALSE

\* two failing trials, the second strictly smaller, so it displaced the first
C6_Witness ==
    /\ SearchReturned /\ PassingTrials = {}
    /\ Len(trials) = 2
    /\ trials[2].size < trials[1].size
    /\ output.artifact = 2

\* ------------------------------------------------------------------ C7
\* C7: with a valid budget and an existing input of size <= target_size
\* the call makes no codec invocation, creates no temporary file, makes
\* the output a copy of the input and returns (input size, true).
C7_CopyThroughShortCircuit ==
    (pc # "call" /\ input_exists /\ BudgetValid /\ input_size <= target_size)
    => /\ pc = "returned"
       /\ codec_calls = 0 /\ iterations = 0 /\ trials = << >>
       /\ live = {}
       /\ output = [kind |-> "copy", artifact |-> None, size |-> input_size]
       /\ result_size = input_size
       /\ result_reached = TRUE

\* the boundary case: the input is exactly target_size bytes
C7_Witness ==
    pc = "returned" /\ output.kind = "copy" /\ input_size = target_size

\* ------------------------------------------------------------------ C8
\* C8: the number of codec invocations never exceeds max_iterations, and
\* is zero when the input was copied through.
C8_CodecCallsBounded ==
    /\ codec_calls <= max_iterations
    /\ output.kind = "copy" => codec_calls = 0

\* the cap, not the interval, ended the search
C8_Witness ==
    /\ SearchReturned
    /\ codec_calls = max_iterations
    /\ low <= high

\* ------------------------------------------------------------------ C9
\* C9 as stated: every budget violating a clause of the validation makes
\* the call fail with the invalid-budget error before any codec invocation
\* or write to the output path; no other budget fails the validation.
C9_InvalidBudgetRejected ==
    pc # "call" =>
        IF ~BudgetValid
        THEN /\ pc = "raised" /\ err \in InvalidBudgetErrors
             /\ codec_calls = 0 /\ live = {} /\ output = Untouched
        ELSE err \notin InvalidBudgetErrors

\* C9 amended: the same, provided the input document exists; when it is
\* missing the call fails with the input-not-found error instead, which
\* is raised first, also before any codec invocation or write.
C9_InvalidBudgetRejectedAfterInputCheck ==
    pc # "call" =>
        IF ~BudgetValid
        THEN /\ pc = "raised"
             /\ err \in (IF input_exists THEN InvalidBudgetErrors
                         ELSE {"FileNotFoundError"})
             /\ codec_calls = 0 /\ live = {} /\ output = Untouched
        ELSE err \notin InvalidBudgetErrors

\* an invalid budget rejected although the input is already small enough
C9_Witness ==
    /\ pc = "raised" /\ err \in InvalidBudgetErrors
    /\ input_exists /\ input_size <= target_size

\* ------------------------------------------------------------------ C10
\* C10: finalization promotes best_candidate if set, else fallback_result,
\* else fails with the no-candidate error; with a valid budget,
\* max_iterations >= 1 and an existing input larger than target_size that
\* error is unreachable: after the first trial one of the two is set and
\* the one finalization would promote still exists.
C10_FinalizationSelects ==
    /\ SearchReturned =>
          /\ output.artifact # None
          /\ output.artifact =
                IF best_candidate # None THEN best_candidate
                ELSE fallback_result
    /\ err = NoCandidateError =>
          best_candidate = None /\ fallback_result = None
    /\ (BudgetValid /\ max_iterations >= 1 /\ input_exists
            /\ input_size > target_size)
          => err # NoCandidateError
    /\ (pc = "loop" /\ iterations >= 1) =>
          /\ best_candidate # None \/ fallback_result # None
          /\ (IF best_candidate # None THEN best_candidate
              ELSE fallback_result) \in live

\* both slots were set and the best candidate was promoted
C10_Witness ==
    /\ SearchReturned
    /\ best_candidate # None /\ fallback_result # None
    /\ output.artifact = best_candidate

\* ------------------------------------------------------------------ C11
\* C11: a search that ends with a promoted output and reached_target false
\* is reported as a success with a warning, not as an error: compress_pdf
\* returns instead of raising, and main does not end with an error status.
C11_DegradedResultIsNotAnError ==
    /\ (SearchReturned /\ ~result_reached) => err = "none"
    /\ (main_done /\ SearchReturned /\ ~result_reached) =>
          /\ warning_printed
          /\ exit_code = 0

\* ------------------------------------------------------------------ C13
\* C13: the fallback slot changes only on a trial over the ceiling taken
\* while best_candidate is absent, and then only if the slot is empty or
\* the trial is strictly smaller; once best_candidate is set the slot is
\* never modified again.
C13_FallbackFreeze ==
    [][ /\ best_candidate # None =>
             /\ fallback_result' = fallback_result
             /\ fallback_result_size' = fallback_result_size
        /\ (fallback_result' # fallback_result
               \/ fallback_result_size' # fallback_result_size) =>
             /\ Len(trials') = Len(trials) + 1
             /\ best_candidate = None /\ best_candidate' = None
             /\ ~UnderCeiling(trials'[Len(trials')].size)
             /\ \/ fallback_result = None
                \/ trials'[Len(trials')].size < fallback_result_size
             /\ fallback_result' = trials'[Len(trials')].artifact
             /\ fallback_result_size' = trials'[Len(trials')].size ]_vars

\* a fallback, then a passing trial, then a smaller failing trial that
\* left the fallback as it was
C13_Witness ==
    /\ pc = "loop" /\ Len(trials) = 3
    /\ best_candidate = 2 /\ fallback_result = 1
    /\ ~UnderCeiling(trials[3].size)
    /\ trials[3].size < fallback_result_size

\* ------------------------------------------------------------------ C14
\* C14: at every iteration boundary a set best_candidate is within the
\* ceiling and is the earliest trial of the largest size among the passing
\* trials so far; it is replaced only by a passing trial when absent or
\* the trial is strictly larger, so its size never decreases.
C14_BestIsLargestPassing ==
    /\ [](pc = "loop" =>
            /\ best_candidate = None <=> PassingTrials = {}
            /\ best_candidate # None =>
                 LET m == MaxOf({trials[i].size : i \in PassingTrials})
                 IN  /\ UnderCeiling(best_candidate_size)
                     /\ best_candidate_size = m
                     /\ trials[best_candidate].size = m
                     /\ best_candidate =
                          MinOf({i \in PassingTrials : trials[i].size = m}))
    /\ [][ /\ best_candidate_size' >= best_candidate_size
           /\ best_candidate' # best_candidate =>
                /\ Len(trials') = Len(trials) + 1
                /\ UnderCeiling(trials'[Len(trials')].size)
                /\ \/ best_candidate = None
                   \/ trials'[Len(trials')].size > best_candidate_size
                /\ best_candidate' = trials'[Len(trials')].artifact ]_vars

\* a later passing trial of the same size left the earlier one in place
C14_Witness ==
    /\ pc = "loop" /\ Len(trials) >= 2
    /\ best_candidate = 1
    /\ UnderCeiling(trials[2].size)
    /\ trials[2].size = best_candidate_size

\* ------------------------------------------------------------------ C15
\* C15: between iterations min_quality <= low, high <= max_quality and
\* low <= high + 1; each trial's quality is floor((low + high) / 2) of the
\* interval it ran on, inside [low, high]; a passing trial sets
\* low = quality + 1 and keeps high, a failing one sets high = quality - 1
\* and keeps low.
C15_IntervalInvariant ==
    /\ [](pc = "loop" =>
            /\ min_quality <= low /\ high <= max_quality
            /\ low <= high + 1
            /\ \A i \in TrialIndexes :
                  min_quality <= trials[i].quality
                  /\ trials[i].quality <= max_quality)
    /\ [][ Len(trials') = Len(trials) + 1 =>
             LET t == trials'[Len(trials')]
             IN  /\ 2 * t.quality <= low + high
                 /\ low + high < 2 * t.quality + 2
                 /\ low <= t.quality /\ t.quality <= high
                 /\ IF UnderCeiling(t.size)
                    THEN low' = t.quality + 1 /\ high' = high
                    ELSE high' = t.quality - 1 /\ low' = low ]_vars

\* a passing and a failing trial have both narrowed the interval
C15_Witness ==
    /\ pc = "loop" /\ Len(trials) >= 2
    /\ low > min_quality /\ high < max_quality
    /\ low <= high

\* ------------------------------------------------------------------ C16
\* C16: at every iteration boundary the temporary files that exist are
\* exactly those held in the non-empty best and fallback slots, so at most
\* two: an unretained trial file and a displaced file have been removed.
C16_LiveIsExactlyTheSlots ==
    pc = "loop" =>
        /\ live = {best_candidate, fallback_result} \ {None}
        /\ Cardinality(live) <= 2

\* both slots held, and the file of a third, unretained trial removed
C16_Witness ==
    /\ pc = "loop" /\ Len(trials) = 3
    /\ Cardinality(live) = 2
    /\ 3 \notin live

\* ------------------------------------------------------------------ C17
\* C17 as stated: reached_target is set-only; once a passing trial of size
\* <= target_size has occurred the flag is true at the end of the search.
C17_FlagIsSetOnly ==
    (SearchReturned
        /\ \E i \in PassingTrials : trials[i].size <= target_size)
    => result_reached

\* C17 amended: reached_target is overwritten by every passing trial with
\* (that trial's size <= target_size) and left alone by failing trials, so
\* during and at the end of the search it tells whether the latest passing
\* trial was at or below target_size (false if there was none).
C17_FlagFollowsLastPassingTrial ==
    LET last == MaxOf(PassingTrials)
        expected == PassingTrials # {} /\ trials[last].size <= target_size
    IN  /\ pc = "loop" => (reached_target <=> expected)
        /\ SearchReturned => (result_reached <=> expected)

\* a passing trial at or below the target, then a passing trial above it
C17_Witness ==
    /\ SearchReturned
    /\ \E i \in PassingTrials : trials[i].size <= target_size
    /\ ~result_reached

\* ------------------------------------------------------------------ C18
\* C18: whenever main prints its warning, the output is within the
\* tolerance window as the warning says: the returned size is at most
\* target_size * (1 + tolerance).
C18_WarningMeansWithinTolerance ==
    (main_done /\ warning_printed) => UnderCeiling(result_size)

\* ------------------------------------------------------------------ C19
\* C19: unless a codec call fails, the loop ends and finalization is
\* reached; each iteration adds one to iterations and strictly shrinks
\* the interval, and the loop is left exactly when low > high or
\* iterations = max_iterations.
C19_LoopTerminates ==
    /\ (pc = "loop") ~>
          (pc = "returned" \/ err = NoCandidateError \/ err = CodecError)
    /\ [][ /\ (pc = "loop" /\ pc' = "loop") =>
                /\ iterations' = iterations + 1
                /\ high' - low' < high - low
                /\ low <= high /\ iterations < max_iterations
           /\ (pc = "loop" /\ pc' # "loop" /\ err' # CodecError) =>
                /\ low > high \/ iterations = max_iterations
                /\ pc' = "returned" \/ err' = NoCandidateError ]_vars

\* the search ran to the iteration cap with the interval still open
C19_Witness ==
    /\ SearchReturned
    /\ iterations = max_iterations /\ iterations >= 2
    /\ low <= high

\* ------------------------------------------------------------------ C20
\* C20: under a non-decreasing size function the passing trials have
\* non-decreasing sizes, so the returned reached_target equals (promoted
\* size <= target_size), and it is false when the fallback is promoted.
C20_MonotoneCodecFlagMatchesPromoted ==
    (SearchReturned /\ NonDecreasing(codec)) =>
        /\ \A i, j \in PassingTrials :
              i <= j => trials[i].size <= trials[j].size
        /\ result_reached <=> output.size <= target_size
        /\ best_candidate = None => ~result_reached

\* a monotone codec whose promoted candidate is within the ceiling but
\* above the target, after a passing trial below the target
C20_Witness ==
    /\ SearchReturned /\ NonDecreasing(codec)
    /\ Cardinality(PassingTrials) >= 2
    /\ output.size > target_size
    /\ output.artifact = best_candidate
    /\ ~result_reached

\* the search under weak fairness: an enabled step is eventually taken
FairSpec == Init /\ [][Next]_vars /\ WF_vars(Next)

====
